---- MODULE Spec2Model ----
(***************************************************************************)
(* Model of the multi-node blockchain simulation of bitcoin-rust:         *)
(* the block / transaction data model with its hashing and Merkle         *)
(* aggregation (core/block.rs, core/transaction.rs), the validators and   *)
(* the mining functions (core/consensus.rs), and the node workers that    *)
(* mine, broadcast, receive and validate blocks (Node::start_node), driven *)
(* by the main loop of main.rs.                                            *)
(***************************************************************************)
EXTENDS Integers, Sequences, FiniteSets, TLC

\* ------------------------------------------------------------------ bounds
\* Longest list of pending transactions a unit test hands to mine_new_block.
MaxTxs == 2
\* Number of mine-triggers the driver loop of main.rs sends in a behaviour.
MaxTriggers == 2
\* Largest reading of the wall clock (milliseconds, abstracted to ticks).
MaxTime == 1

\* --------------------------------------------------------------- constants
\* The number of simulated nodes (imported from crate::constants by main.rs
\* and consensus.rs).
NUMBER_OF_NODES == 3
SOFTWARE_VERSION == "0.1.0"
TX_VERSION == 1
\* 50 BTC; a u128 that is only ever formatted, kept as its decimal text.
COINBASE_VALUE == "50000000000"

\* for id in 0..count: the ids of the nodes main spawns (count is
\* NUMBER_OF_NODES in main.rs).
NodeIds(count) == 0 .. (count - 1)

\* Option<T>: None is the empty tuple, Some(x) the one-element tuple.
None == << >>
Some(x) == << x >>

\* Vec::last().unwrap()
tip_of(chain) == chain[Len(chain)]

VARIABLES
    now,          \* the wall clock read by get_current_timestamp_ms
    sent,         \* number of mine-triggers the driver has sent so far
    triggers,     \* triggers[n]: mine-triggers pending in node n's rx channel
    inbox,        \* inbox[n]: blocks queued in tx_rx_channels[n] (FIFO)
    blockchain,   \* blockchain[n]: node n's chain (Mutex<Vec<Block>>)
    chain_lock,   \* chain_lock[n]: node n's blockchain mutex is held
    table_lock,   \* holder of the tx_rx_channels mutex: None or Some(node)
    pc,           \* pc[n]: position of node n's worker in its loop
    report,       \* report[n]: last line printed by node n's receive path
    send_index,   \* send_index[n]: the variable i of node n's send loop
    test          \* locals of the unit tests of consensus.rs: the chain a
                  \* test builds, the block it validates and the verdict

vars == << now, sent, triggers, inbox, blockchain, chain_lock, table_lock,
           pc, report, send_index, test >>

\* The nodes that were spawned: one worker, one chain and one channel each.
Nodes == DOMAIN pc

\* ----------------------------------------------------------------- hashing
\* sha256_hash: a collision-free digest, kept as a term over its input.
sha256_hash(data) == << "sha256", data >>

\* The public key of node id, generated once in Node::new.
generate_keypair(id) == << "pub_key", id >>

\* PublicKey::to_string: the hex serialisation of the key.
pub_key_to_string(pk) == << "hex", pk >>

\* ------------------------------------------------------------ transactions
new_coinbase_transaction(script_pub_key, recipient_pub_key) ==
    [ transaction_version |-> TX_VERSION,
      input_count         |-> 0,
      inputs              |-> << >>,
      output_count        |-> 1,
      outputs             |-> << [ value             |-> COINBASE_VALUE,
                                   script_length     |-> 0,
                                   script_pub_key    |-> script_pub_key,
                                   recipient_pub_key |-> recipient_pub_key ] >>,
      lock_time           |-> 0 ]

\* impl Display for Transaction: "Transaction(<Debug of every field>)".
transaction_to_string(t) ==
    << "Transaction", t.transaction_version, t.input_count, t.inputs,
       t.output_count, t.outputs, t.lock_time >>

transaction_hash(t) == sha256_hash(transaction_to_string(t))

\* format!("{}{}", left, right): the two 64-character hex digests in a row.
concat_hashes(left, right) == << "cat", left, right >>

\* Mutant of merkle_level: an unpaired last hash moves up unchanged.
merkle_level_promote_last(hashes) ==
    [ k \in 1 .. ((Len(hashes) + 1) \div 2) |->
        IF 2 * k <= Len(hashes)
        THEN sha256_hash(concat_hashes(hashes[2 * k - 1], hashes[2 * k]))
        ELSE hashes[2 * k - 1] ]

\* One pass of the while loop of calculate_merkle_root: pairs (i, i+1) for
\* i = 0, 2, 4, ...; an unpaired last hash is paired with itself.
merkle_level(hashes) ==
    [ k \in 1 .. ((Len(hashes) + 1) \div 2) |->
        LET left  == hashes[2 * k - 1]
            right == IF 2 * k <= Len(hashes) THEN hashes[2 * k]
                                             ELSE hashes[2 * k - 1]
        IN  sha256_hash(concat_hashes(left, right)) ]

RECURSIVE merkle_reduce(_)
merkle_reduce(hashes) ==
    IF Len(hashes) > 1 THEN merkle_reduce(merkle_level(hashes)) ELSE hashes

\* calculate_merkle_root; hashes[0] of an empty vector panics, which is kept
\* as the value "panic".
calculate_merkle_root(transactions) ==
    LET hashes == merkle_reduce([ k \in 1 .. Len(transactions) |->
                                    transaction_hash(transactions[k]) ])
    IN  IF Len(hashes) = 0 THEN << "panic" >> ELSE hashes[1]

\* ------------------------------------------------------------------ blocks
Block_new(software_version, previous_block_hash, merkle_root, timestamp, difficulty_target, nonce, transactions, coinbase_transaction) ==
    [ header |-> [ software_version    |-> software_version,
                   previous_block_hash |-> previous_block_hash,
                   merkle_root         |-> merkle_root,
                   timestamp           |-> timestamp,
                   difficulty_target   |-> difficulty_target,
                   nonce               |-> nonce ],
      transactions         |-> transactions,
      coinbase_transaction |-> coinbase_transaction ]

\* impl Display for BlockHeader: "BlockHeader(<Debug of every field>)".
header_to_string(h) ==
    << "BlockHeader", h.software_version, h.previous_block_hash,
       h.merkle_root, h.timestamp, h.difficulty_target, h.nonce >>

hash_block(block) == sha256_hash(header_to_string(block.header))

\* --------------------------------------------------------------- consensus
get_list_of_transactions == << >>

\* get_current_timestamp_ms() read when the clock shows t.
get_current_timestamp_ms(t) == t

init_genesis_block(miner_pub_key, t) ==
    LET script_pub_key       == pub_key_to_string(miner_pub_key)
        coinbase_transaction == new_coinbase_transaction(script_pub_key,
                                                         miner_pub_key)
        transactions         == << coinbase_transaction >>
        merkle_root          == calculate_merkle_root(transactions)
    IN  Block_new(SOFTWARE_VERSION, None, merkle_root,
                  get_current_timestamp_ms(t), 0, 0, transactions,
                  coinbase_transaction)

\* Mutant of mine_new_block: the hash of the tip is not written into the
\* header.
mine_new_block_unlinked(miner_pub_key, previous_block_hash, transactions, t) ==
    LET script_pub_key       == pub_key_to_string(miner_pub_key)
        coinbase_transaction == new_coinbase_transaction(script_pub_key,
                                                         miner_pub_key)
        all_transactions     == << coinbase_transaction >> \o transactions
        merkle_root          == calculate_merkle_root(all_transactions)
    IN  Block_new(SOFTWARE_VERSION, None, merkle_root,
                  get_current_timestamp_ms(t), 0, 0, all_transactions,
                  coinbase_transaction)

\* Mutant of mine_new_block: the block carries the pending transactions only,
\* the coinbase transaction is left out of the list.
mine_new_block_list_without_coinbase(miner_pub_key, previous_block_hash, transactions, t) ==
    LET script_pub_key       == pub_key_to_string(miner_pub_key)
        coinbase_transaction == new_coinbase_transaction(script_pub_key,
                                                         miner_pub_key)
        merkle_root          == calculate_merkle_root(transactions)
    IN  Block_new(SOFTWARE_VERSION, Some(previous_block_hash), merkle_root,
                  get_current_timestamp_ms(t), 0, 0, transactions,
                  coinbase_transaction)

\* Mutant of mine_new_block: the Merkle root is taken over the supplied
\* transactions, before the coinbase was put in front of them.
mine_new_block_root_without_coinbase(miner_pub_key, previous_block_hash, transactions, t) ==
    LET script_pub_key       == pub_key_to_string(miner_pub_key)
        coinbase_transaction == new_coinbase_transaction(script_pub_key,
                                                         miner_pub_key)
        all_transactions     == << coinbase_transaction >> \o transactions
        merkle_root          == calculate_merkle_root(transactions)
    IN  Block_new(SOFTWARE_VERSION, Some(previous_block_hash), merkle_root,
                  get_current_timestamp_ms(t), 0, 0, all_transactions,
                  coinbase_transaction)

mine_new_block(miner_pub_key, previous_block_hash, transactions, t) ==
    LET script_pub_key       == pub_key_to_string(miner_pub_key)
        coinbase_transaction == new_coinbase_transaction(script_pub_key,
                                                         miner_pub_key)
        all_transactions     == << coinbase_transaction >> \o transactions
        merkle_root          == calculate_merkle_root(all_transactions)
    IN  Block_new(SOFTWARE_VERSION, Some(previous_block_hash), merkle_root,
                  get_current_timestamp_ms(t), 0, 0, all_transactions,
                  coinbase_transaction)

\* Mutant of validate_block: the timestamp is not compared with the clock.
validate_block_any_timestamp(block, t) ==
    calculate_merkle_root(block.transactions) = block.header.merkle_root

\* validate_block, the clock showing t when it runs.
validate_block(block, t) ==
    LET block_hash  == sha256_hash(header_to_string(block.header))
        merkle_root == calculate_merkle_root(block.transactions)
    IN  IF hash_block(block) # block_hash THEN FALSE
        ELSE IF merkle_root # block.header.merkle_root THEN FALSE
        ELSE IF block.header.timestamp > get_current_timestamp_ms(t) THEN FALSE
        ELSE TRUE

\* Mutant of validate_blockchain: the loop also visits the first block.
validate_blockchain_from_first(chain, t) ==
    \A i \in 1 .. Len(chain) : validate_block(chain[i], t)

\* validate_blockchain: for i in (1..len).rev(), 0-based; here indices 2..Len.
validate_blockchain(chain, t) ==
    \A i \in 2 .. Len(chain) : validate_block(chain[i], t)

\* ------------------------------------------------------------------- state
\* No unit test is running.
NoTest == [ op |-> "none", blockchain |-> << >>, original |-> None,
            block |-> None, is_valid |-> None, transactions |-> None,
            merkle_root |-> None, chain |-> None ]

\* The state main has built when the workers start: `count` nodes with empty
\* chains and empty channels.
InitNodes(count) ==
    /\ now = 0
    /\ sent = 0
    /\ triggers = [ n \in NodeIds(count) |-> 0 ]
    /\ inbox = [ n \in NodeIds(count) |-> << >> ]
    /\ blockchain = [ n \in NodeIds(count) |-> << >> ]
    /\ chain_lock = [ n \in NodeIds(count) |-> FALSE ]
    /\ table_lock = None
    /\ pc = [ n \in NodeIds(count) |-> "poll" ]
    /\ report = [ n \in NodeIds(count) |-> "none" ]
    /\ send_index = [ n \in NodeIds(count) |-> 0 ]
    /\ test = NoTest

Init == InitNodes(NUMBER_OF_NODES)

\* SystemTime::now() moves on.
Tick ==
    /\ now < MaxTime
    /\ now' = now + 1
    /\ UNCHANGED << test, send_index >>
    /\ UNCHANGED << sent, triggers, inbox, blockchain, chain_lock, table_lock,
                    pc, report >>

\* main.rs loop: pick a random node and send it a mine-trigger.
SendTrigger(n) ==
    /\ sent < MaxTriggers
    /\ sent' = sent + 1
    /\ triggers' = [ triggers EXCEPT ![n] = @ + 1 ]
    /\ UNCHANGED << test, send_index >>
    /\ UNCHANGED << now, inbox, blockchain, chain_lock, table_lock, pc, report >>

\* Sender::send on an mpsc channel: the message joins the end of the queue.
channel_send(queue, message) == Append(queue, message)

\* Mutant of channel_try_recv: the newest message is taken, not the oldest.
channel_try_recv_newest(queue) ==
    [ message |-> queue[Len(queue)], rest |-> SubSeq(queue, 1, Len(queue) - 1) ]

\* Receiver::try_recv on a non-empty mpsc channel: the oldest message is
\* taken out of the queue.
channel_try_recv(queue) == [ message |-> Head(queue), rest |-> Tail(queue) ]

\* Mutant of push_block: the nodes share one Vec<Block>.
push_block_shared(chains, n, block) ==
    [ m \in DOMAIN chains |-> Append(chains[m], block) ]

\* blockchain.push(block) on node n's own chain (self.blockchain).
push_block(chains, n, block) == [ chains EXCEPT ![n] = Append(@, block) ]

\* Mutant of mined_block: the is_empty test is lost and every mine-trigger
\* builds a genesis block.
mined_block_always_genesis(n, chain, t) ==
    init_genesis_block(generate_keypair(n), t)

\* The block a mine-trigger makes node n append (consensus.rs 42-52).
mined_block(n, chain, t) ==
    IF Len(chain) = 0
    THEN init_genesis_block(generate_keypair(n), t)
    ELSE mine_new_block(generate_keypair(n), hash_block(chain[Len(chain)]),
                        get_list_of_transactions, t)

\* Mutant of chain_lock_free: the nodes share one chain mutex.
chain_lock_free_shared(locks, n) == \A m \in DOMAIN locks : locks[m] = FALSE

\* self.blockchain.lock() returns at once: the mutex of node n's own chain
\* (Node::new, line 28) is not held.
chain_lock_free(locks, n) == locks[n] = FALSE

\* Mutant of trigger_received: the worker never finds a trigger.
trigger_received_never(pending) == FALSE

\* rx.try_recv().is_ok() on the node's trigger channel holding `pending`
\* messages (line 39).
trigger_received(pending) == pending > 0

\* rx.try_recv() is Ok: lock the chain and push a genesis or a mined block.
\* The chain guard lives until the end of the if block, so it stays held.
MineTrigger(n) ==
    /\ pc[n] = "poll"
    /\ trigger_received(triggers[n])
    /\ chain_lock_free(chain_lock, n)
    /\ triggers' = [ triggers EXCEPT ![n] = @ - 1 ]
    /\ chain_lock' = [ chain_lock EXCEPT ![n] = TRUE ]
    /\ blockchain' = push_block(blockchain, n,
                                mined_block(n, blockchain[n], now))
    /\ pc' = [ pc EXCEPT ![n] = "bcast_lock" ]
    /\ UNCHANGED << test, send_index >>
    /\ UNCHANGED << now, sent, inbox, table_lock, report >>

\* rx.try_recv() is Err: nothing to mine, go on to the receive path.
NoTrigger(n) ==
    /\ pc[n] = "poll"
    /\ ~trigger_received(triggers[n])
    /\ pc' = [ pc EXCEPT ![n] = "recv_lock" ]
    /\ UNCHANGED << test, send_index >>
    /\ UNCHANGED << now, sent, triggers, inbox, blockchain, chain_lock,
                    table_lock, report >>

\* Mutant of table_lock_free: lock() never waits, the mutex excludes nobody.
table_lock_free_always(holder) == TRUE

\* tx_rx_channels_clone.lock() returns: nobody holds the one mutex around the
\* channel table (main.rs line 27).
table_lock_free(holder) == holder = None

\* tx_rx_channels_clone.lock() of the mine path (line 54).
BroadcastLock(n) ==
    /\ pc[n] = "bcast_lock"
    /\ table_lock_free(table_lock)
    /\ table_lock' = Some(n)
    /\ pc' = [ pc EXCEPT ![n] = "bcast" ]
    /\ UNCHANGED << test, send_index >>
    /\ UNCHANGED << now, sent, triggers, inbox, blockchain, chain_lock, report >>

\* Mutant of table_guard_dropped: the guard outlives the loop body.
table_guard_kept(n) == Some(n)

\* The table mutex once node n's MutexGuard has gone out of scope (the end of
\* the if block at line 61, the end of the loop body at line 79).
table_guard_dropped(n) == None

\* Mutant of broadcast_targets: the loop runs over 0..self.id only.
broadcast_targets_below(n) == { i \in Nodes : i < n }

\* Mutant of broadcast_targets: the test i != self.id is lost.
broadcast_targets_all(n) == Nodes

\* The channels the for loop of lines 55-60 sends to.
broadcast_targets(n) == { i \in Nodes : i # n }

\* Lines 55-61: send a clone of the tip to every other node, then both guards
\* are dropped at the end of the if block.
Broadcast(n) ==
    /\ pc[n] = "bcast"
    /\ table_lock = Some(n)
    /\ inbox' = [ i \in Nodes |->
                    IF i \in broadcast_targets(n)
                    THEN channel_send(inbox[i], tip_of(blockchain[n]))
                    ELSE inbox[i] ]
    /\ table_lock' = table_guard_dropped(n)
    /\ chain_lock' = [ chain_lock EXCEPT ![n] = FALSE ]
    /\ pc' = [ pc EXCEPT ![n] = "recv_lock" ]
    /\ UNCHANGED << test, send_index >>
    /\ UNCHANGED << now, sent, triggers, blockchain, report >>

\* tx_rx_channels_clone.lock() of the receive path (line 64).
ReceiveLock(n) ==
    /\ pc[n] = "recv_lock"
    /\ table_lock_free(table_lock)
    /\ table_lock' = Some(n)
    /\ pc' = [ pc EXCEPT ![n] = "recv" ]
    /\ UNCHANGED << test, send_index >>
    /\ UNCHANGED << now, sent, triggers, inbox, blockchain, chain_lock, report >>

\* Mutant of receive_block: the result of validate_blockchain is ignored.
receive_block_unchecked(chain, new_block, t) == Append(chain, new_block)

\* Mutant of receive_block: an accepted block replaces the chain instead of
\* being pushed onto it.
receive_block_reset(chain, new_block, t) ==
    IF validate_blockchain(Append(chain, new_block), t)
    THEN << new_block >>
    ELSE chain

\* The chain node n holds after handling new_block (lines 67-76).
receive_block(chain, new_block, t) ==
    LET new_blockchain == Append(chain, new_block)
    IN  IF validate_blockchain(new_blockchain, t)
        THEN Append(chain, new_block)
        ELSE chain

\* rx_block.try_recv() is Ok (lines 66-77); the table guard is dropped at the
\* end of the loop body.
ReceiveBlock(n) ==
    /\ pc[n] = "recv"
    /\ table_lock = Some(n)
    /\ Len(inbox[n]) > 0
    /\ chain_lock_free(chain_lock, n)
    /\ LET new_block == channel_try_recv(inbox[n]).message
       IN  /\ blockchain' = [ blockchain EXCEPT
                                ![n] = receive_block(@, new_block, now) ]
           /\ report' = [ report EXCEPT
                            ![n] = IF validate_blockchain(
                                        Append(blockchain[n], new_block), now)
                                   THEN "accepted" ELSE "invalid" ]
    /\ inbox' = [ inbox EXCEPT ![n] = channel_try_recv(@).rest ]
    /\ table_lock' = table_guard_dropped(n)
    /\ pc' = [ pc EXCEPT ![n] = "poll" ]
    /\ UNCHANGED << test, send_index >>
    /\ UNCHANGED << now, sent, triggers, chain_lock >>

\* rx_block.try_recv() is Err: the loop body ends, the table guard drops.
ReceiveNone(n) ==
    /\ pc[n] = "recv"
    /\ table_lock = Some(n)
    /\ Len(inbox[n]) = 0
    /\ table_lock' = table_guard_dropped(n)
    /\ pc' = [ pc EXCEPT ![n] = "poll" ]
    /\ UNCHANGED << test, send_index >>
    /\ UNCHANGED << now, sent, triggers, inbox, blockchain, chain_lock, report >>

Next ==
    \/ Tick
    \/ \E n \in NodeIds(NUMBER_OF_NODES) : SendTrigger(n)
    \/ \E n \in NodeIds(NUMBER_OF_NODES) : MineTrigger(n)
    \/ \E n \in NodeIds(NUMBER_OF_NODES) : NoTrigger(n)
    \/ \E n \in NodeIds(NUMBER_OF_NODES) : BroadcastLock(n)
    \/ \E n \in NodeIds(NUMBER_OF_NODES) : Broadcast(n)
    \/ \E n \in NodeIds(NUMBER_OF_NODES) : ReceiveLock(n)
    \/ \E n \in NodeIds(NUMBER_OF_NODES) : ReceiveBlock(n)
    \/ \E n \in NodeIds(NUMBER_OF_NODES) : ReceiveNone(n)

Spec == Init /\ [][Next]_vars

\* One turn of the for loop of lines 55-60: i = send_index[n]; the tip is sent
\* to channel i unless i is the node's own id.  Broadcast above is these
\* turns and SendDone taken as one step.
SendOne(n) ==
    /\ pc[n] = "bcast"
    /\ send_index[n] \in Nodes
    /\ inbox' = [ i \in Nodes |->
                    IF i = send_index[n] /\ i \in broadcast_targets(n)
                    THEN channel_send(inbox[i], tip_of(blockchain[n]))
                    ELSE inbox[i] ]
    /\ send_index' = [ send_index EXCEPT ![n] = @ + 1 ]
    /\ UNCHANGED << now, sent, triggers, blockchain, chain_lock, table_lock,
                    pc, report, test >>

\* The for loop is over (line 61): both guards are dropped.
SendDone(n) ==
    /\ pc[n] = "bcast"
    /\ send_index[n] \notin Nodes
    /\ send_index' = [ send_index EXCEPT ![n] = 0 ]
    /\ table_lock' = table_guard_dropped(n)
    /\ chain_lock' = [ chain_lock EXCEPT ![n] = FALSE ]
    /\ pc' = [ pc EXCEPT ![n] = "recv_lock" ]
    /\ UNCHANGED << now, sent, triggers, inbox, blockchain, report, test >>

\* The steps of the system with every send a step of its own.
NextSends ==
    \/ \E n \in NodeIds(NUMBER_OF_NODES + 1) : SendTrigger(n)
    \/ \E n \in NodeIds(NUMBER_OF_NODES + 1) : MineTrigger(n)
    \/ \E n \in NodeIds(NUMBER_OF_NODES + 1) : NoTrigger(n)
    \/ \E n \in NodeIds(NUMBER_OF_NODES + 1) : BroadcastLock(n)
    \/ \E n \in NodeIds(NUMBER_OF_NODES + 1) : SendOne(n)
    \/ \E n \in NodeIds(NUMBER_OF_NODES + 1) : SendDone(n)
    \/ \E n \in NodeIds(NUMBER_OF_NODES + 1) : ReceiveLock(n)
    \/ \E n \in NodeIds(NUMBER_OF_NODES + 1) : ReceiveBlock(n)
    \/ \E n \in NodeIds(NUMBER_OF_NODES + 1) : ReceiveNone(n)

\* The system with one node more than NUMBER_OF_NODES, so that two nodes
\* watch the broadcasts of two others, within one tick of the clock.
SpecSends == InitNodes(NUMBER_OF_NODES + 1) /\ [][NextSends]_vars

\* The starting point of the scenario of the specification's section 8: the
\* genesis block has been mined by node 0 and adopted by every node, and all
\* workers are back at the top of their loop.  MaxTriggers then counts the
\* mine-triggers sent from there on.
GenesisInit ==
    /\ now = 0
    /\ sent = 0
    /\ triggers = [ n \in NodeIds(NUMBER_OF_NODES) |-> 0 ]
    /\ inbox = [ n \in NodeIds(NUMBER_OF_NODES) |-> << >> ]
    /\ blockchain = [ n \in NodeIds(NUMBER_OF_NODES) |->
                        << init_genesis_block(generate_keypair(0), 0) >> ]
    /\ chain_lock = [ n \in NodeIds(NUMBER_OF_NODES) |-> FALSE ]
    /\ table_lock = None
    /\ pc = [ n \in NodeIds(NUMBER_OF_NODES) |-> "poll" ]
    /\ report = [ n \in NodeIds(NUMBER_OF_NODES) |->
                    IF n = 0 THEN "none" ELSE "accepted" ]
    /\ send_index = [ n \in NodeIds(NUMBER_OF_NODES) |-> 0 ]
    /\ test = NoTest

SpecGenesis == GenesisInit /\ [][Next]_vars

\* SystemTime is not monotonic: the wall clock may be set back.
ClockBack ==
    /\ now > 0
    /\ now' = now - 1
    /\ UNCHANGED << test, send_index >>
    /\ UNCHANGED << sent, triggers, inbox, blockchain, chain_lock, table_lock,
                    pc, report >>

SpecSkew == Init /\ [][Next \/ ClockBack]_vars

\* -------------------------------------------------------------- unit tests
\* The tests of consensus.rs (test_genesis_block_creation, test_mine_new_block,
\* test_block_validation, test_blockchain_validation) call the mining and the
\* validating functions directly, single-threaded, on a chain of their own.
\* Here they run for every miner key, every list of pending transactions up
\* to MaxTxs and every reading of the clock.

\* Blocks a test mines at most.
MaxTestBlocks == MaxTriggers

\* let pub_key = generate_public_key(); one key per test.
TestKeys == { generate_keypair(0) }

\* Transactions a test can build: Transaction::new_coinbase_transaction is the
\* only constructor.
TestTransactions ==
    { new_coinbase_transaction(pub_key_to_string(generate_keypair(k)),
                               generate_keypair(k)) : k \in 0 .. 1 }

TestTransactionLists ==
    UNION { [ 1 .. l -> TestTransactions ] : l \in 0 .. MaxTxs }

UnitInit ==
    /\ now = 0
    /\ sent = 0
    /\ triggers = [ n \in NodeIds(NUMBER_OF_NODES) |-> 0 ]
    /\ inbox = [ n \in NodeIds(NUMBER_OF_NODES) |-> << >> ]
    /\ blockchain = [ n \in NodeIds(NUMBER_OF_NODES) |-> << >> ]
    /\ chain_lock = [ n \in NodeIds(NUMBER_OF_NODES) |-> FALSE ]
    /\ table_lock = None
    /\ pc = [ n \in NodeIds(NUMBER_OF_NODES) |-> "poll" ]
    /\ report = [ n \in NodeIds(NUMBER_OF_NODES) |-> "none" ]
    /\ send_index = [ n \in NodeIds(NUMBER_OF_NODES) |-> 0 ]
    /\ \E pub_key \in TestKeys :
          test = [ op |-> "new", pub_key |-> pub_key, blockchain |-> << >>,
                   original |-> None, block |-> None, is_valid |-> None,
                   transactions |-> None, merkle_root |-> None,
                   chain |-> None ]

\* The test has built its chain and has not yet run its check on it: every
\* test function ends with the one check it makes.
Building == test.op \in { "new", "init_genesis_block", "mine_new_block" }

system_vars == << sent, triggers, inbox, blockchain, chain_lock, table_lock,
                  pc, report, send_index >>

\* let genesis_block = Node::init_genesis_block(pub_key.clone());
\* let mut blockchain = vec![genesis_block.clone()];
TestGenesis ==
    /\ Len(test.blockchain) = 0
    /\ test' = [ test EXCEPT
                   !.op = "init_genesis_block",
                   !.blockchain = << init_genesis_block(test.pub_key, now) >>,
                   !.original = None, !.block = None, !.is_valid = None,
                   !.transactions = None, !.merkle_root = None,
                   !.chain = None ]
    /\ UNCHANGED << now, system_vars >>

\* let new_block = Node::mine_new_block(pub_key, tip.hash_block(), transactions);
\* blockchain.push(new_block);
TestMine(transactions) ==
    /\ Len(test.blockchain) >= 1
    /\ Len(test.blockchain) < MaxTestBlocks
    /\ test' = [ test EXCEPT
                   !.op = "mine_new_block",
                   !.blockchain =
                       Append(@, mine_new_block(test.pub_key,
                                                hash_block(tip_of(@)),
                                                transactions, now)),
                   !.original = None, !.block = None, !.is_valid = None,
                   !.transactions = None, !.merkle_root = None,
                   !.chain = None ]
    /\ UNCHANGED << now, system_vars >>

\* let is_valid = Node::validate_block(&block);
TestValidateBlock(i) ==
    /\ Building
    /\ i \in 1 .. Len(test.blockchain)
    /\ test' = [ test EXCEPT
                   !.op = "validate_block",
                   !.original = Some(test.blockchain[i]),
                   !.block = Some(test.blockchain[i]),
                   !.is_valid = Some(validate_block(test.blockchain[i], now)),
                   !.transactions = None, !.merkle_root = None,
                   !.chain = None ]
    /\ UNCHANGED << now, system_vars >>

\* let is_valid = Node::validate_blockchain(&blockchain);
TestValidateBlockchain ==
    /\ Building
    /\ Len(test.blockchain) >= 1
    /\ test' = [ test EXCEPT
                   !.op = "validate_blockchain",
                   !.original = None, !.block = None,
                   !.is_valid = Some(validate_blockchain(test.blockchain, now)),
                   !.transactions = None, !.merkle_root = None,
                   !.chain = None ]
    /\ UNCHANGED << now, system_vars >>

HeaderFields == { "software_version", "previous_block_hash", "merkle_root",
                  "timestamp", "difficulty_target", "nonce" }

\* Values a test may write into a header field (all fields are pub).
HeaderValues(field) ==
    CASE field = "software_version"    -> { SOFTWARE_VERSION, "0.2.0" }
      [] field = "previous_block_hash" ->
            { None } \cup { Some(hash_block(test.blockchain[j])) :
                                j \in 1 .. Len(test.blockchain) }
      [] field = "merkle_root"         ->
            { calculate_merkle_root(l) :
                l \in { x \in TestTransactionLists : Len(x) = 1 } }
      [] field = "timestamp"           -> 0 .. (MaxTime + 1)
      [] field = "difficulty_target"   -> 0 .. 1
      [] field = "nonce"               -> 0 .. 1

\* let mut block = blockchain.last().unwrap().clone();
\* block.header.<field> = value; let is_valid = Node::validate_block(&block);
\* Every block is the last one when it is made, so each gets its turn.
TestTamper(field, value) ==
    /\ Building
    /\ Len(test.blockchain) >= 1
    /\ value # tip_of(test.blockchain).header[field]
    /\ LET block == [ tip_of(test.blockchain) EXCEPT !.header[field] = value ]
       IN  test' = [ test EXCEPT
                       !.op = "tamper",
                       !.original = Some(tip_of(test.blockchain)),
                       !.block = Some(block),
                       !.is_valid = Some(validate_block(block, now)),
                       !.transactions = None, !.merkle_root = None,
                       !.chain = None ]
    /\ UNCHANGED << now, system_vars >>

BodyFields == { "transactions", "coinbase_transaction" }

\* Values a test may write into a field of the block body (both are pub).
BodyValues(field) ==
    CASE field = "transactions" ->
            { l \in TestTransactionLists : Len(l) \in 1 .. 2 }
      [] field = "coinbase_transaction" -> TestTransactions

\* let mut block = blockchain.last().unwrap().clone();
\* block.<field> = value; let is_valid = Node::validate_block(&block);
TestTamperBody(field, value) ==
    /\ Building
    /\ Len(test.blockchain) >= 1
    /\ value # tip_of(test.blockchain)[field]
    /\ LET block == [ tip_of(test.blockchain) EXCEPT ![field] = value ]
       IN  test' = [ test EXCEPT
                       !.op = "tamper_body",
                       !.original = Some(tip_of(test.blockchain)),
                       !.block = Some(block),
                       !.is_valid = Some(validate_block(block, now)),
                       !.transactions = None, !.merkle_root = None,
                       !.chain = None ]
    /\ UNCHANGED << now, system_vars >>

\* Transaction lists handed to calculate_merkle_root: the program hashes the
\* coinbase transaction followed by at most MaxTxs pending ones.
MerkleTransactionLists ==
    UNION { [ 1 .. l -> TestTransactions ] : l \in 1 .. (MaxTxs + 1) }

\* let merkle_root = calculate_merkle_root(&transactions);
TestMerkleRoot(transactions) ==
    /\ Building
    /\ Len(test.blockchain) = 0
    /\ test' = [ test EXCEPT
                   !.op = "calculate_merkle_root",
                   !.original = None, !.block = None, !.is_valid = None,
                   !.transactions = Some(transactions),
                   !.merkle_root = Some(calculate_merkle_root(transactions)),
                   !.chain = None ]
    /\ UNCHANGED << now, system_vars >>

\* Blocks no miner would build: a timestamp ahead of the clock, a Merkle root
\* that matches no transaction list, an empty transaction list.
BadKinds == { "future_timestamp", "wrong_merkle_root", "no_transactions" }

BadBlock(kind, pub_key, t) ==
    LET block == init_genesis_block(pub_key, t)
    IN  CASE kind = "future_timestamp" ->
                [ block EXCEPT !.header.timestamp = t + 1 ]
          [] kind = "wrong_merkle_root" ->
                [ block EXCEPT
                    !.header.merkle_root = sha256_hash(<< "garbage" >>) ]
          [] kind = "no_transactions" ->
                [ block EXCEPT !.transactions = << >> ]

\* blockchain[0] = block; let is_valid = Node::validate_blockchain(&blockchain);
TestReplaceFirst(kind) ==
    /\ Building
    /\ Len(test.blockchain) >= 1
    /\ LET block == BadBlock(kind, test.pub_key, now)
           chain == [ test.blockchain EXCEPT ![1] = block ]
       IN  test' = [ test EXCEPT
                       !.op = "replace_first",
                       !.original = Some(test.blockchain[1]),
                       !.block = Some(block),
                       !.is_valid = Some(validate_blockchain(chain, now)),
                       !.transactions = None, !.merkle_root = None,
                       !.chain = Some(chain) ]
    /\ UNCHANGED << now, system_vars >>

\* The receive path of the worker loop run by a node whose chain is still
\* empty, with a block taken from the node's channel.
TestReceive(kind) ==
    /\ Building
    /\ Len(test.blockchain) = 0
    /\ LET block == BadBlock(kind, test.pub_key, now)
       IN  test' = [ test EXCEPT
                       !.op = "receive",
                       !.original = None,
                       !.block = Some(block),
                       !.is_valid = None,
                       !.transactions = None, !.merkle_root = None,
                       !.chain = Some(receive_block(test.blockchain, block,
                                                    now)) ]
    /\ UNCHANGED << now, system_vars >>

UnitNext ==
    \/ Tick
    \/ TestGenesis
    \/ \E transactions \in TestTransactionLists : TestMine(transactions)
    \/ \E i \in 1 .. MaxTestBlocks : TestValidateBlock(i)
    \/ TestValidateBlockchain
    \/ \E field \in HeaderFields :
          \E value \in HeaderValues(field) : TestTamper(field, value)
    \/ \E field \in BodyFields :
          \E value \in BodyValues(field) : TestTamperBody(field, value)
    \/ \E transactions \in MerkleTransactionLists :
          TestMerkleRoot(transactions)
    \/ \E kind \in BadKinds : TestReplaceFirst(kind)
    \/ \E kind \in BadKinds : TestReceive(kind)

SpecUnit == UnitInit /\ [][UnitNext]_vars

\* ------------------------------------------------------- shared predicates
IsPrefix(s, t) ==
    /\ Len(s) <= Len(t)
    /\ \A i \in 1 .. Len(s) : s[i] = t[i]

\* chain[i].previous_block_hash = Some(chain[i-1].hash_block()) for i >= 1.
Linked(chain) ==
    \A i \in 2 .. Len(chain) :
        chain[i].header.previous_block_hash = Some(hash_block(chain[i - 1]))

\* The node a block's coinbase pays.
PaysNode(block, n) ==
    /\ Len(block.transactions) >= 1
    /\ block.transactions[1] =
          new_coinbase_transaction(pub_key_to_string(generate_keypair(n)),
                                   generate_keypair(n))

\* Steps of node n's worker, recognised by its positions before and after.
MineStep(n)      == pc[n] = "poll" /\ pc'[n] = "bcast_lock"
BroadcastStep(n) == pc[n] = "bcast" /\ pc'[n] = "recv_lock"
ReceiveStep(n)   == pc[n] = "recv" /\ pc'[n] = "poll" /\ Len(inbox[n]) > 0

\* ------------------------------------------------------------------ claims

\* C1: in every reachable state every node's chain is linked: for every
\* index i >= 1, chain[i].previous_block_hash = Some(chain[i-1].hash_block()).
C1_ChainLinkage ==
    \A n \in Nodes : Linked(blockchain[n])

\* C2: a node whose chain is [genesis, block2] that receives a block whose
\* previous_block_hash is the hash of genesis keeps its chain of length 2;
\* in general a received block whose previous_block_hash differs from the
\* hash of the receiver's tip is never appended.
C2_RogueBlockRejected ==
    [][ \A n \in Nodes :
          ( /\ ReceiveStep(n)
            /\ Len(blockchain[n]) >= 1
            /\ Head(inbox[n]).header.previous_block_hash
                 # Some(hash_block(tip_of(blockchain[n]))) )
          => blockchain'[n] = blockchain[n] ]_vars

\* C3: validate_blockchain returns false for every chain of length >= 2 with
\* a broken link, even when every block passes validate_block; stated of the
\* candidate chains the receive path hands to validate_blockchain.
C3_BrokenLinkInvalid ==
    \A n \in Nodes :
        Len(inbox[n]) > 0 =>
            LET candidate == Append(blockchain[n], Head(inbox[n]))
            IN  (Len(candidate) >= 2 /\ ~Linked(candidate))
                    => ~validate_blockchain(candidate, now)

\* C4: every block returned by init_genesis_block or mine_new_block passes
\* validate_block at any time at or after its creation, and every chain built
\* as a genesis block followed by mine_new_block calls that each extend the
\* hash of the previous tip passes validate_blockchain.
C4_MinedBlocksValidate ==
    /\ test.op = "validate_block" => test.is_valid = Some(TRUE)
    /\ test.op = "validate_blockchain" => test.is_valid = Some(TRUE)

\* A chain of a genesis block and a mined block carrying pending transactions
\* has been validated after the clock moved on.
C4_Witness ==
    /\ test.op = "validate_blockchain"
    /\ Len(test.blockchain) >= 2
    /\ Len(tip_of(test.blockchain).transactions) >= 3
    /\ now > tip_of(test.blockchain).header.timestamp

\* C5: handling one peer block removes exactly the head of the node's inbound
\* channel and leaves the chain equal to old_chain + [block] exactly when
\* validate_blockchain(old_chain + [block]) holds, and equal to old_chain
\* otherwise; the block is not queued again anywhere and nothing else changes.
C5_ReceiveOutcome ==
    [][ \A n \in Nodes :
          ReceiveStep(n) =>
            LET new_block == Head(inbox[n])
                candidate == Append(blockchain[n], new_block)
            IN  /\ inbox'[n] = Tail(inbox[n])
                /\ validate_blockchain(candidate, now)
                      => blockchain'[n] = candidate
                /\ ~validate_blockchain(candidate, now)
                      => blockchain'[n] = blockchain[n]
                /\ \A m \in Nodes \ {n} :
                      /\ inbox'[m] = inbox[m]
                      /\ blockchain'[m] = blockchain[m]
                /\ UNCHANGED << now, sent, triggers, chain_lock >> ]_vars

\* A node has dropped a received block and kept blocks it accepted before.
C5_Witness ==
    \E n \in Nodes :
        /\ report[n] = "invalid"
        /\ pc[n] = "poll"
        /\ Len(blockchain[n]) >= 1

\* C6: handling one mine-trigger appends exactly one block: on an empty chain
\* a block with previous_block_hash = None whose only transaction is the
\* coinbase paying the node; otherwise a block whose previous_block_hash is
\* Some(hash of the tip before the append) and whose first transaction is the
\* coinbase paying the node.  The chain is not touched again before the
\* broadcast is over.
C6_MineAppendsOne ==
    [][ \A n \in Nodes :
          /\ MineStep(n) =>
               LET old == blockchain[n]
                   new == blockchain'[n]
               IN  /\ Len(new) = Len(old) + 1
                   /\ IsPrefix(old, new)
                   /\ PaysNode(tip_of(new), n)
                   /\ tip_of(new).coinbase_transaction = tip_of(new).transactions[1]
                   /\ IF Len(old) = 0
                      THEN /\ tip_of(new).header.previous_block_hash = None
                           /\ Len(tip_of(new).transactions) = 1
                      ELSE tip_of(new).header.previous_block_hash
                             = Some(hash_block(tip_of(old)))
          /\ pc[n] \in { "bcast_lock", "bcast" }
               => blockchain'[n] = blockchain[n] ]_vars

\* A node has mined a block on top of a non-empty chain.
C6_Witness ==
    \E n \in Nodes :
        /\ pc[n] = "bcast_lock"
        /\ Len(blockchain[n]) >= 2
        /\ PaysNode(tip_of(blockchain[n]), n)
        /\ tip_of(blockchain[n]).header.previous_block_hash # None

\* C7: when a node has handled a mine-trigger, a copy of the block it appended
\* (its tip) has been queued once on every other node's inbound channel and
\* nothing on its own; no channel ever grows except by such a broadcast.
C7_BroadcastFrame ==
    [][ /\ \A n \in Nodes :
             BroadcastStep(n) =>
                /\ blockchain'[n] = blockchain[n]
                /\ PaysNode(tip_of(blockchain[n]), n)
                /\ inbox'[n] = inbox[n]
                /\ \A i \in Nodes \ {n} :
                      inbox'[i] = Append(inbox[i], tip_of(blockchain[n]))
        /\ \A i \in Nodes :
             inbox'[i] # inbox[i] =>
                \/ ReceiveStep(i) /\ inbox'[i] = Tail(inbox[i])
                \/ \E n \in Nodes \ {i} :
                      /\ BroadcastStep(n)
                      /\ inbox'[i] = Append(inbox[i], tip_of(blockchain[n])) ]_vars

\* A node has just broadcast: its tip is the newest block of every other
\* node's channel and its own channel is empty.
C7_Witness ==
    \E n \in Nodes :
        /\ pc[n] = "recv_lock"
        /\ Len(blockchain[n]) >= 1
        /\ inbox[n] = << >>
        /\ \A i \in Nodes \ {n} :
              /\ Len(inbox[i]) >= 1
              /\ inbox[i][Len(inbox[i])] = tip_of(blockchain[n])

\* C8: changing any single header field of a block produced by
\* mine_new_block or init_genesis_block to a different value makes
\* validate_block return false.
C8_TamperDetected ==
    test.op = "tamper" => test.is_valid = Some(FALSE)

\* C9: in every node's chain the block at index 0 has previous_block_hash =
\* None and no block at an index >= 1 has.
C9_OnlyGenesisHasNoParent ==
    \A n \in Nodes :
        \A i \in 1 .. Len(blockchain[n]) :
            (blockchain[n][i].header.previous_block_hash = None) <=> (i = 1)

\* C10: every step leaves every node's chain a prefix of what it becomes.
C10_AppendOnly ==
    [][ \A n \in Nodes : IsPrefix(blockchain[n], blockchain'[n]) ]_vars

\* A chain has grown both by mining and by accepting a peer's block.
C10_Witness ==
    \E n \in Nodes :
        /\ Len(blockchain[n]) >= 2
        /\ report[n] = "accepted"
        /\ \E i \in 1 .. Len(blockchain[n]) : PaysNode(blockchain[n][i], n)

\* The node a block's coinbase pays: the id behind the recipient key.
MinerOf(block) == block.coinbase_transaction.outputs[1].recipient_pub_key[2]

\* The blocks of a sequence that node n mined, in the order of the sequence.
MinedBy(blocks, n) == SelectSeq(blocks, LAMBDA block : MinerOf(block) = n)

\* C11: a step of node i's worker never changes the chain of a node j # i;
\* a chain changes only when its own worker mines or takes a block from its
\* own inbound channel.
C11_OwnChainOnly ==
    [][ \A j \in Nodes :
          blockchain'[j] # blockchain[j] =>
             /\ MineStep(j) \/ ReceiveStep(j)
             /\ \A i \in Nodes \ {j} : pc'[i] = pc[i] ]_vars

\* A node holds a block mined by another node while that node has moved on.
C11_Witness ==
    \E i \in Nodes : \E j \in Nodes \ {i} :
        /\ Len(blockchain[j]) >= 1
        /\ PaysNode(tip_of(blockchain[j]), i)
        /\ Len(blockchain[i]) > Len(blockchain[j])

\* C12: every inbound channel is first-in first-out, so the blocks one node
\* mined are handled by every other node in the order they were mined: what
\* node j has taken of node i's blocks, followed by what still waits in j's
\* channel, is an initial part of the blocks i mined, in i's order.
C12_ChannelFifo ==
    \A i \in Nodes : \A j \in Nodes \ {i} :
        IsPrefix(MinedBy(blockchain[j], i) \o MinedBy(inbox[j], i),
                 MinedBy(blockchain[i], i))

\* A node has taken, one after the other, two blocks mined by one other node.
C12_Witness ==
    \E i \in Nodes : \E j \in Nodes \ {i} :
        /\ Len(MinedBy(blockchain[j], i)) >= 2
        /\ inbox[j] = << >>

\* The block a validate_block probe was run on.
ProbedBlock == test.block[1]

\* A block with the fields the claim calls irrelevant blanked out.
WithoutIgnoredFields(block) ==
    [ block EXCEPT !.header.previous_block_hash = None,
                   !.header.difficulty_target = 0,
                   !.header.nonce = 0,
                   !.coinbase_transaction = << >> ]

PairHash(left, right) == sha256_hash(concat_hashes(left, right))

\* Reference reduction, one level: adjacent hashes are paired from the left
\* and a last hash without a partner is paired with itself.
RECURSIVE PairUp(_)
PairUp(hashes) ==
    IF Len(hashes) = 0 THEN << >>
    ELSE IF Len(hashes) = 1 THEN << PairHash(hashes[1], hashes[1]) >>
    ELSE << PairHash(hashes[1], hashes[2]) >>
            \o PairUp(SubSeq(hashes, 3, Len(hashes)))

\* Reference reduction of a non-empty list of hashes to its root.
RECURSIVE ReferenceRoot(_)
ReferenceRoot(hashes) ==
    IF Len(hashes) = 1 THEN hashes[1] ELSE ReferenceRoot(PairUp(hashes))

\* C15: for every non-empty transaction list calculate_merkle_root equals the
\* reference reduction; the root of [tx] is tx.hash() and the root of
\* [t1, t2, t3] is H(H(h1, h2), H(h3, h3)).
C15_MerkleRootReference ==
    test.op = "calculate_merkle_root" =>
       LET transactions == test.transactions[1]
           h == [ k \in 1 .. Len(transactions) |->
                    transaction_hash(transactions[k]) ]
       IN  /\ test.merkle_root = Some(ReferenceRoot(h))
           /\ Len(h) = 1 => test.merkle_root = Some(h[1])
           /\ Len(h) = 3 =>
                 test.merkle_root =
                    Some(PairHash(PairHash(h[1], h[2]), PairHash(h[3], h[3])))

\* The root of a list of three transactions, not all the same, was computed.
C15_Witness ==
    /\ test.op = "calculate_merkle_root"
    /\ Len(test.transactions[1]) = 3
    /\ test.transactions[1][3] # test.transactions[1][1]
    /\ test.merkle_root # None

HeldBlocks(n) == blockchain[n] \o inbox[n]

\* C17: every block in any chain or inbound channel has a non-empty
\* transaction list whose first element is its coinbase_transaction, so
\* calculate_merkle_root never runs on an empty list.
C17_CoinbaseFirst ==
    \A n \in Nodes :
        \A k \in 1 .. Len(HeldBlocks(n)) :
            LET block == HeldBlocks(n)[k]
            IN  /\ Len(block.transactions) >= 1
                /\ block.transactions[1] = block.coinbase_transaction
                /\ calculate_merkle_root(block.transactions) # << "panic" >>

\* A node holds a block made by mine_new_block in its chain and one in its
\* channel.
C17_Witness ==
    \E n \in Nodes :
        /\ Len(blockchain[n]) >= 1
        /\ Len(inbox[n]) >= 1
        /\ \E k \in 1 .. Len(HeldBlocks(n)) :
              HeldBlocks(n)[k].header.previous_block_hash # None

\* The order of the steps of one pass through the worker loop.
LoopOrder ==
    { << "poll", "bcast_lock" >>, << "bcast_lock", "bcast" >>,
      << "bcast", "recv_lock" >>, << "poll", "recv_lock" >>,
      << "recv_lock", "recv" >>, << "recv", "poll" >> }

\* C18: one pass through the loop handles at most one mine-trigger and at
\* most one peer block, in that order: a worker that finds a trigger at the
\* top of the loop mines and broadcasts before it turns to its channel, each
\* pass takes one trigger or none and one block or none, and the chain only
\* changes in the mining step and in the receiving step.
C18_MineBeforeReceive ==
    [][ \A n \in Nodes :
          pc'[n] # pc[n] =>
             /\ << pc[n], pc'[n] >> \in LoopOrder
             /\ (pc[n] = "poll" /\ triggers[n] > 0) =>
                   /\ MineStep(n)
                   /\ triggers'[n] = triggers[n] - 1
                   /\ Len(blockchain'[n]) = Len(blockchain[n]) + 1
                   /\ inbox'[n] = inbox[n]
             /\ pc[n] # "poll" => triggers'[n] = triggers[n]
             /\ pc[n] = "recv" =>
                   Len(inbox'[n]) \in { Len(inbox[n]), Len(inbox[n]) - 1 }
             /\ pc[n] # "recv" => inbox'[n] = inbox[n]
             /\ blockchain'[n] # blockchain[n] =>
                   MineStep(n) \/ ReceiveStep(n) ]_vars

\* A worker has appended its own block and is about to broadcast it while a
\* peer block waits in its channel.
C18_Witness ==
    \E n \in Nodes :
        /\ pc[n] = "bcast_lock"
        /\ Len(inbox[n]) >= 1
        /\ PaysNode(tip_of(blockchain[n]), n)

\* Some step of node n's worker.
WorkerStep(n) ==
    \/ MineTrigger(n) \/ NoTrigger(n) \/ BroadcastLock(n) \/ Broadcast(n)
    \/ ReceiveLock(n) \/ ReceiveBlock(n) \/ ReceiveNone(n)

\* Node n's worker is inside lock() on the table mutex, which is held.
WaitsForTable(n) ==
    /\ pc[n] \in { "bcast_lock", "recv_lock" }
    /\ ~table_lock_free(table_lock)

\* Node n's worker is inside lock() on its chain mutex, which is held.
WaitsForChain(n) ==
    /\ \/ pc[n] = "poll" /\ trigger_received(triggers[n])
       \/ pc[n] = "recv" /\ Len(inbox[n]) > 0
    /\ ~chain_lock_free(chain_lock, n)

\* C19: the system never deadlocks, although the mine path takes the chain
\* lock before the table lock and the receive path the table lock before the
\* chain lock: in no reachable state is every worker waiting for a lock, the
\* holder of the table lock never waits for its chain lock, and a chain lock
\* is held only by its own worker on its mine path, where it waits for no
\* chain lock.
C19_NoDeadlock ==
    /\ \E n \in Nodes : ~WaitsForTable(n) /\ ~WaitsForChain(n)
    /\ \A n \in Nodes :
          /\ ~WaitsForChain(n)
          /\ table_lock = Some(n) => pc[n] \in { "bcast", "recv" }
          /\ chain_lock[n] => pc[n] \in { "bcast_lock", "bcast" }

\* One worker holds its chain lock and waits for the table lock while another
\* holds the table lock and is about to lock its chain for a received block.
C19_Witness ==
    \E n \in Nodes : \E m \in Nodes \ {n} :
        /\ pc[n] = "bcast_lock"
        /\ chain_lock[n]
        /\ table_lock = Some(m)
        /\ pc[m] = "recv"
        /\ Len(inbox[m]) >= 1

\* Block x comes before block y in the sequence.
Before(blocks, x, y) ==
    \E p \in 1 .. Len(blocks) : \E q \in (p + 1) .. Len(blocks) :
        blocks[p] = x /\ blocks[q] = y

\* Blocks x and y were mined by two different nodes, neither of them j or k.
ForeignPair(x, y, j, k) ==
    \E a \in Nodes \ {j, k} : \E b \in Nodes \ {j, k, a} :
        PaysNode(x, a) /\ PaysNode(y, b)

\* C20: a broadcast is atomic with respect to other broadcasts: no two
\* workers are inside their send loops at once, and two blocks mined by two
\* different nodes reach every node other than their miners in the same
\* relative order, in its channel and hence in its chain.
C20_BroadcastAtomic ==
    /\ \A n \in Nodes : \A m \in Nodes \ {n} :
          ~(pc[n] = "bcast" /\ pc[m] = "bcast")
    /\ \A j \in Nodes : \A k \in Nodes \ {j} :
          \A p \in 1 .. Len(HeldBlocks(j)) :
             \A q \in (p + 1) .. Len(HeldBlocks(j)) :
                ForeignPair(HeldBlocks(j)[p], HeldBlocks(j)[q], j, k)
                   => ~Before(HeldBlocks(k), HeldBlocks(j)[q],
                              HeldBlocks(j)[p])

\* Two nodes hold the blocks of two other miners in the same order, one of
\* them already in its chain.
C20_Witness ==
    \E j \in Nodes : \E k \in Nodes \ {j} :
        /\ Len(blockchain[j]) >= 2
        /\ ForeignPair(blockchain[j][1], blockchain[j][2], j, k)
        /\ Before(HeldBlocks(k), blockchain[j][1], blockchain[j][2])

\* The worker threads are scheduled fairly: a worker that can take a step
\* (it is not waiting for a lock somebody holds) eventually takes one.
FairScheduling ==
    \A n \in NodeIds(NUMBER_OF_NODES) : WF_vars(WorkerStep(n))

SpecFair == Init /\ [][Next]_vars /\ FairScheduling

\* The table mutex is granted fairly: a worker that waits for it while it is
\* free again and again eventually gets it.
FairTableLock ==
    \A n \in NodeIds(NUMBER_OF_NODES) :
        SF_vars(BroadcastLock(n)) /\ SF_vars(ReceiveLock(n))

\* Every pending mine-trigger is handled, its block broadcast, and every
\* queued block is taken off its channel.
EveryEventHandled ==
    \A n \in NodeIds(NUMBER_OF_NODES) :
        /\ (triggers[n] > 0) ~>
              (triggers[n] = 0 /\ pc[n] \notin { "bcast_lock", "bcast" })
        /\ (Len(inbox[n]) > 0) ~> (Len(inbox[n]) = 0)

Quiescent ==
    \A n \in Nodes :
        /\ triggers[n] = 0
        /\ pc[n] \notin { "bcast_lock", "bcast" }
        /\ Len(inbox[n]) = 0

\* The set of blocks of a chain.
BlocksOf(chain) == { chain[i] : i \in 1 .. Len(chain) }

\* C21: no block appears twice in a node's chain, and in every quiescent
\* state (no mine-trigger pending or being handled, all channels empty, the
\* clock never set back) all chains hold the same set of blocks, one per
\* mine-trigger sent, so all have the same length.
C21_SameBlocksWhenQuiescent ==
    /\ \A n \in Nodes :
          \A i \in 1 .. Len(blockchain[n]) :
             \A k \in (i + 1) .. Len(blockchain[n]) :
                blockchain[n][i] # blockchain[n][k]
    /\ Quiescent =>
          \A n \in Nodes :
             /\ Len(blockchain[n]) = sent
             /\ BlocksOf(blockchain[n]) = BlocksOf(blockchain[0])

\* The system has come to rest after two nodes mined a block each.
C21_Witness ==
    /\ Quiescent
    /\ sent >= 2
    /\ \E n \in Nodes : \E m \in Nodes \ {n} :
          /\ PaysNode(blockchain[0][1], n)
          /\ PaysNode(blockchain[0][2], m)

\* main.rs loop with the pause after each trigger (thread::sleep of
\* AVERAGE_BLOCK_TIME_MS) long enough for the network to come to rest: the
\* next trigger is sent only when nothing is under way.
PacedTrigger(n) ==
    /\ Quiescent
    /\ SendTrigger(n)

NextPaced ==
    \/ Tick
    \/ \E n \in NodeIds(NUMBER_OF_NODES) : PacedTrigger(n)
    \/ \E n \in NodeIds(NUMBER_OF_NODES) : MineTrigger(n)
    \/ \E n \in NodeIds(NUMBER_OF_NODES) : NoTrigger(n)
    \/ \E n \in NodeIds(NUMBER_OF_NODES) : BroadcastLock(n)
    \/ \E n \in NodeIds(NUMBER_OF_NODES) : Broadcast(n)
    \/ \E n \in NodeIds(NUMBER_OF_NODES) : ReceiveLock(n)
    \/ \E n \in NodeIds(NUMBER_OF_NODES) : ReceiveBlock(n)
    \/ \E n \in NodeIds(NUMBER_OF_NODES) : ReceiveNone(n)

SpecPaced == Init /\ [][NextPaced]_vars

\* C22: when every mine-trigger is sent only while the system is quiescent
\* (quiescent as in C21: the clock is never set back), in every quiescent
\* state all nodes hold the same sequence of blocks, and in it every block at
\* an index >= 1 carries the hash of the block before it.
C22_PacedChainsAgree ==
    Quiescent =>
       \A n \in Nodes :
          /\ blockchain[n] = blockchain[0]
          /\ Linked(blockchain[n])

\* The network has come to rest with a genesis block and a block on top of it
\* mined by another node.
C22_Witness ==
    /\ Quiescent
    /\ Len(blockchain[0]) >= 2
    /\ \E n \in Nodes : \E m \in Nodes \ {n} :
          /\ PaysNode(blockchain[0][1], n)
          /\ PaysNode(blockchain[0][2], m)
    /\ \A n \in Nodes : blockchain[n] = blockchain[0]

====
